---- MODULE Spec2Model ----
(***************************************************************************)
(* A model of the plain-text-accounting parser (src/src/lib.rs,            *)
(* src/src/util.rs).  Text is a sequence of one-character strings.  Every  *)
(* grammar rule is an operator from the input text to a parse result       *)
(*     [kind |-> "Ok",    rest |-> remaining text, out |-> value]          *)
(*     [kind |-> "Err",   rest |-> text at which the error was raised]     *)
(*     [kind |-> "Panic"]  (unwrap/expect on a failed conversion)          *)
(* and the state machine calls one rule on one input, the transaction rule *)
(* statement by statement.                                                 *)
(***************************************************************************)
EXTENDS Integers, Sequences, FiniteSets, TLC

VARIABLES
    rule,           \* the rule the caller invokes on input
    input,          \* the text handed to the rule
    pc,             \* position inside the invoked rule
    rest,           \* the rule's current `input` binding (remaining text)
    outcome,        \* "Running", "Ok", "Err" or "Panic"
    value,          \* None, or Some(value returned by a single rule)
    date_,          \* transaction(): `date`
    auxillary_date_,\* transaction(): `auxillary_date`
    state,          \* transaction(): `state`
    code_,          \* transaction(): `code`
    merchant,       \* transaction(): `merchant`
    memo,           \* transaction(): `memo`
    postings        \* transaction(): `postings` (separated_list0's `res`)

vars == <<rule, input, pc, rest, outcome, value, date_, auxillary_date_,
          state, code_, merchant, memo, postings>>

(***************************************************************************)
(* Values.                                                                 *)
(***************************************************************************)
None == [some |-> FALSE]
Some(v) == [some |-> TRUE, v |-> v]

Ok(r, o) == [kind |-> "Ok", rest |-> r, out |-> o]
Err(at) == [kind |-> "Err", rest |-> at]
Panic == [kind |-> "Panic"]

(***************************************************************************)
(* Text helpers.                                                           *)
(***************************************************************************)
Take(s, n) == SubSeq(s, 1, n)
Drop(s, n) == SubSeq(s, n + 1, Len(s))
IsPrefix(t, s) == Len(t) <= Len(s) /\ Take(s, Len(t)) = t

\* Length of the longest prefix of s whose characters are all in S.
SpanLen(S, s) ==
    CHOOSE n \in 0..Len(s) :
        /\ \A i \in 1..n : s[i] \in S
        /\ n = Len(s) \/ s[n + 1] \notin S

\* Offsets (0-based) at which t occurs in s.
Occurrences(t, s) == {k \in 0..(Len(s) - Len(t)) : IsPrefix(t, Drop(s, k))}
Min(S) == CHOOSE k \in S : \A j \in S : k <= j

Digit == {"0", "1", "2", "3", "4", "5", "6", "7", "8", "9"}
DigitChar == <<"0", "1", "2", "3", "4", "5", "6", "7", "8", "9">>
Alpha == {"a", "b", "c", "d", "e", "f", "g", "h", "i", "j", "k", "l", "m",
          "n", "o", "p", "q", "r", "s", "t", "u", "v", "w", "x", "y", "z",
          "A", "B", "C", "D", "E", "F", "G", "H", "I", "J", "K", "L", "M",
          "N", "O", "P", "Q", "R", "S", "T", "U", "V", "W", "X", "Y", "Z"}
Blank == {" ", "\t"}

DigitVal(c) == (CHOOSE i \in 1..10 : DigitChar[i] = c) - 1

RECURSIVE ToNat(_)
ToNat(s) == IF s = <<>> THEN 0
            ELSE ToNat(Take(s, Len(s) - 1)) * 10 + DigitVal(s[Len(s)])

RECURSIVE ToStr(_)
ToStr(n) == IF n < 10 THEN <<DigitChar[n + 1]>>
            ELSE ToStr(n \div 10) \o <<DigitChar[(n % 10) + 1]>>

Pad2(n) == IF n < 10 THEN <<"0">> \o ToStr(n) ELSE ToStr(n)

(***************************************************************************)
(* Binding helpers: the value of e is computed once and named in K.        *)
(***************************************************************************)
Let(e, K(_)) == CHOOSE v \in {K(r) : r \in {e}} : TRUE

\* `let (input, x) = e?;` within a rule: continue with K on success, else
\* hand the error (or the panic) to the caller
AndThen(e, K(_)) == CHOOSE v \in {IF r.kind = "Ok" THEN K(r) ELSE r : r \in {e}} : TRUE

(***************************************************************************)
(* nom combinators used by the rules.                                      *)
(***************************************************************************)
\* character::complete::char / bytes::complete::tag
Tag(t, i) == IF IsPrefix(t, i) THEN Ok(Drop(i, Len(t)), t) ELSE Err(i)

\* character::complete::one_of
OneOf(S, i) == IF i # <<>> /\ i[1] \in S THEN Ok(Drop(i, 1), <<i[1]>>) ELSE Err(i)

\* digit1, alpha1, space1: one or more characters of the class
Many1Class(S, i) ==
    Let(SpanLen(S, i), LAMBDA n : IF n = 0 THEN Err(i) ELSE Ok(Drop(i, n), Take(i, n)))

Alpha1(i) == Many1Class(Alpha, i)
Digit1(i) == Many1Class(Digit, i)

\* space0: zero or more blanks
Space0(i) == Let(SpanLen(Blank, i), LAMBDA n : Ok(Drop(i, n), Take(i, n)))

\* bytes::complete::take_until: up to the first occurrence of t, which must exist
TakeUntil(t, i) ==
    Let(Occurrences(t, i), LAMBDA occ :
        IF occ = {} THEN Err(i) ELSE Ok(Drop(i, Min(occ)), Take(i, Min(occ))))

\* character::complete::line_ending: "\n" or "\r\n"
LineEnding(i) ==
    IF IsPrefix(<<"\n">>, i) THEN Ok(Drop(i, 1), <<"\n">>)
    ELSE IF IsPrefix(<<"\r", "\n">>, i) THEN Ok(Drop(i, 2), <<"\r", "\n">>)
    ELSE Err(i)

\* character::complete::not_line_ending: up to the first "\n" or "\r\n";
\* a "\r" that is not followed by "\n" is an error
NotLineEnding(i) ==
    Let(SpanLen({c \in {i[k] : k \in 1..Len(i)} : c \notin {"\r", "\n"}}, i), LAMBDA n :
        IF n = Len(i) THEN Ok(<<>>, i)
        ELSE IF i[n + 1] = "\r" /\ ~IsPrefix(<<"\r", "\n">>, Drop(i, n)) THEN Err(i)
        ELSE Ok(Drop(i, n), Take(i, n)))

\* combinator::opt applied to the result e of running a rule on i: an error
\* becomes "absent" at the position i where the rule was started
OptFromErrorPosition(e, i) ==
    Let(e, LAMBDA r :
        IF r.kind = "Ok" THEN Ok(r.rest, Some(r.out))
        ELSE IF r.kind = "Err" THEN Ok(r.rest, None)
        ELSE r)
Opt(e, i) ==
    Let(e, LAMBDA r :
        IF r.kind = "Ok" THEN Ok(r.rest, Some(r.out))
        ELSE IF r.kind = "Err" THEN Ok(i, None)
        ELSE r)

\* combinator::recognize: the span of i that e consumed
Recognize(e, i) == AndThen(e, LAMBDA r : Ok(r.rest, Take(i, Len(i) - Len(r.rest))))

\* branch::alt over the results of the alternatives, each run on the same
\* input: the first that succeeds, else the last error
AltLastWins(e) ==
    Let(e, LAMBDA rs :
        Let({k \in 1..Len(rs) : rs[k].kind = "Ok"}, LAMBDA ok :
            IF ok = {} THEN rs[Len(rs)] ELSE rs[CHOOSE k \in ok : \A j \in ok : j <= k]))
Alt(e) ==
    Let(e, LAMBDA rs :
        Let({k \in 1..Len(rs) : rs[k].kind = "Ok"}, LAMBDA ok :
            IF ok = {} THEN rs[Len(rs)] ELSE rs[Min(ok)]))

(***************************************************************************)
(* util.rs                                                                 *)
(***************************************************************************)
\* decimal: many1(terminated(one_of("0123456789"), many0(char('_'))))
decimal(i) ==
    IF i = <<>> \/ i[1] \notin Digit THEN Err(i)
    ELSE Let(SpanLen(Digit \cup {"_"}, i), LAMBDA n : Ok(Drop(i, n), Take(i, n)))

\* tuple((one_of("eE"), opt(one_of("+-")), decimal))
Exponent(i) ==
    AndThen(OneOf({"e", "E"}, i), LAMBDA e :
    AndThen(Opt(OneOf({"+", "-"}, e.rest), e.rest), LAMBDA s :
    decimal(s.rest)))

\* Case one: .42
FloatCaseOne(i) ==
    Recognize(AndThen(Tag(<<".">>, i), LAMBDA dot :
              AndThen(decimal(dot.rest), LAMBDA d :
              Opt(Exponent(d.rest), d.rest))), i)

\* opt(preceded(char('.'), decimal))
OptFraction(i) ==
    Opt(AndThen(Tag(<<".">>, i), LAMBDA dot : decimal(dot.rest)), i)

\* Case two: 42e42 and 42.42e42
FloatCaseTwo(i) ==
    Recognize(AndThen(decimal(i), LAMBDA d :
              AndThen(OptFraction(d.rest), LAMBDA f :
              Exponent(f.rest))), i)

\* Case three: 42. and 42.42
FloatCaseThree(i) ==
    Recognize(AndThen(decimal(i), LAMBDA d :
              AndThen(Tag(<<".">>, d.rest), LAMBDA dot :
              Opt(decimal(dot.rest), dot.rest))), i)

float(i) == Alt(<<FloatCaseOne(i), FloatCaseTwo(i), FloatCaseThree(i)>>)

\* space2: char(' ') then space1
space2(i) ==
    AndThen(Tag(<<" ">>, i), LAMBDA c :
    AndThen(Many1Class(Blank, c.rest), LAMBDA s :
    Ok(s.rest, <<>>)))

(***************************************************************************)
(* lib.rs: leaf rules                                                      *)
(***************************************************************************)
\* transaction_state: opt(alt(('*' -> Cleared, '!' -> Pending))), default Uncleared
StateMarker(i) ==
    Alt(<<AndThen(Tag(<<"*">>, i), LAMBDA r : Ok(r.rest, "Cleared")),
          AndThen(Tag(<<"!">>, i), LAMBDA r : Ok(r.rest, "Pending"))>>)

transaction_state(i) ==
    AndThen(Opt(StateMarker(i), i), LAMBDA st :
    Ok(st.rest, IF st.out.some THEN st.out.v ELSE "Uncleared"))

\* rust_decimal's Decimal::from_str, as called on the matched span: digits
\* accumulate into the mantissa, one '.' starts the scale, '_' is skipped
\* once a digit has been seen, anything else (an exponent marker, a second
\* '.') is an error, and so is a text without digits.  A Decimal is
\* mantissa * 10^-scale.
RECURSIVE DecimalScan(_, _, _, _, _)
DecimalScan(s, m, scale, point, has) ==
    IF s = <<>> THEN (IF has THEN Ok(<<>>, [m |-> m, scale |-> scale]) ELSE Err(s))
    ELSE IF s[1] \in Digit
         THEN DecimalScan(Drop(s, 1), m * 10 + DigitVal(s[1]),
                          IF point THEN scale + 1 ELSE scale, point, TRUE)
    ELSE IF s[1] = "." /\ ~point THEN DecimalScan(Drop(s, 1), m, scale, TRUE, has)
    ELSE IF s[1] = "_" /\ has THEN DecimalScan(Drop(s, 1), m, scale, point, has)
    ELSE Err(s)

\* a conversion that takes no grouping separator
DecimalRejectingSeparators(s) ==
    IF "_" \in {s[k] : k \in 1..Len(s)} THEN Err(s) ELSE DecimalScan(s, 0, 0, FALSE, FALSE)
DecimalFromStr(s) == DecimalScan(s, 0, 0, FALSE, FALSE)

RECURSIVE Pow10(_)
Pow10(n) == IF n = 0 THEN 1 ELSE 10 * Pow10(n - 1)

\* Decimal's PartialEq compares the numbers, not the representations
DecimalEq(a, b) == a.m * Pow10(b.scale) = b.m * Pow10(a.scale)

\* separated_pair(alpha1, space0, float)
CurrencyThenFloat(i) ==
    AndThen(Alpha1(i), LAMBDA c :
    AndThen(float(Space0(c.rest).rest), LAMBDA n :
    Ok(n.rest, <<c.out, n.out>>)))

\* separated_pair(alpha1, space0, digit1)
CurrencyThenDigits(i) ==
    AndThen(Alpha1(i), LAMBDA c :
    AndThen(Digit1(Space0(c.rest).rest), LAMBDA n :
    Ok(n.rest, <<c.out, n.out>>)))

\* map(separated_pair(float, space0, alpha1), |(a, c)| (c, a))
FloatThenCurrency(i) ==
    AndThen(float(i), LAMBDA n :
    AndThen(Alpha1(Space0(n.rest).rest), LAMBDA c :
    Ok(c.rest, <<c.out, n.out>>)))

\* map(separated_pair(digit1, space0, alpha1), |(a, c)| (c, a))
DigitsThenCurrency(i) ==
    AndThen(Digit1(i), LAMBDA n :
    AndThen(Alpha1(Space0(n.rest).rest), LAMBDA c :
    Ok(c.rest, <<c.out, n.out>>)))

\* Decimal::from_str(amount).unwrap()
Unwrap(e) == Let(e, LAMBDA d : IF d.kind = "Ok" THEN d ELSE Panic)

\* amount's alt of the four orderings: <<currency, numeric text>>
AmountTokens(i) ==
    Alt(<<CurrencyThenFloat(i), CurrencyThenDigits(i),
          FloatThenCurrency(i), DigitsThenCurrency(i)>>)

\* amount: the tokens, then the conversion
amount(i) ==
    AndThen(AmountTokens(i), LAMBDA r :
    AndThen(Unwrap(DecimalFromStr(r.out[2])), LAMBDA d :
    Ok(r.rest, [currency |-> r.out[1], amount |-> d.out])))

\* posting: take_until(" ") as the account, space2, opt(amount)
posting(i) ==
    AndThen(TakeUntil(<<" ">>, i), LAMBDA a :
    AndThen(space2(a.rest), LAMBDA s :
    AndThen(Opt(amount(s.rest), s.rest), LAMBDA m :
    Ok(m.rest, [account |-> [name |-> a.out], amount |-> m.out]))))

(***************************************************************************)
(* lib.rs: date                                                            *)
(***************************************************************************)
I32Max == <<"2", "1", "4", "7", "4", "8", "3", "6", "4", "7">>
U32Max == <<"4", "2", "9", "4", "9", "6", "7", "2", "9", "5">>

StripZeros(s) == Let(SpanLen({"0"}, s), LAMBDA n : IF n = Len(s) THEN <<"0">> ELSE Drop(s, n))

\* a <= b for digit texts of equal length
DigitsLeq(a, b) ==
    \/ a = b
    \/ \E k \in 1..Len(a) : Take(a, k - 1) = Take(b, k - 1) /\ DigitVal(a[k]) < DigitVal(b[k])

Fits(s, max) ==
    Let(StripZeros(s), LAMBDA sig :
        Len(sig) < Len(max) \/ (Len(sig) = Len(max) /\ DigitsLeq(sig, max)))

\* map_res(digit1, str::parse): the digits as a number of the target type;
\* a number that does not fit the type is an error of the rule.  A u32
\* above i32::MAX is kept as i32::MAX: no month or day that large is valid.
ParsedNumber(max, i) ==
    AndThen(Digit1(i), LAMBDA d :
        IF ~Fits(d.out, max) THEN Err(i)
        ELSE Ok(d.rest, IF Fits(d.out, I32Max) THEN ToNat(StripZeros(d.out))
                        ELSE ToNat(I32Max)))

\* alt((tag("-"), tag("/")))
DateSeparatorDashOnly(i) == Tag(<<"-">>, i)
DateSeparator(i) == Alt(<<Tag(<<"-">>, i), Tag(<<"/">>, i)>>)

IsLeapYear(y) == (y % 4 = 0 /\ y % 100 # 0) \/ y % 400 = 0

DaysInMonth(y, m) ==
    IF m = 2 THEN (IF IsLeapYear(y) THEN 29 ELSE 28)
    ELSE IF m \in {4, 6, 9, 11} THEN 30 ELSE 31

\* chrono's largest representable year
ChronoMaxYear == 262142

\* NaiveDate::from_ymd_opt
FromYmdOpt(y, m, d) ==
    IF y <= ChronoMaxYear /\ m \in 1..12 /\ d >= 1 /\ d <= DaysInMonth(y, m)
    THEN Some([year |-> y, month |-> m, day |-> d])
    ELSE None

\* .expect("Invalid date")
Expect(e, r) == Let(e, LAMBDA nd : IF nd.some THEN Ok(r, nd.v) ELSE Panic)

\* date's five-part tuple: <<year, month, day>>
DateParts(i) ==
    AndThen(ParsedNumber(I32Max, i), LAMBDA y :
    AndThen(DateSeparator(y.rest), LAMBDA s1 :
    AndThen(ParsedNumber(U32Max, s1.rest), LAMBDA m :
    AndThen(DateSeparator(m.rest), LAMBDA s2 :
    AndThen(ParsedNumber(U32Max, s2.rest), LAMBDA d :
    Ok(d.rest, <<y.out, m.out, d.out>>))))))

\* date: the tuple, then from_ymd_opt(..).expect("Invalid date")
date(i) ==
    AndThen(DateParts(i), LAMBDA t :
    Expect(FromYmdOpt(t.out[1], t.out[2], t.out[3]), t.rest))

\* auxillary_date: preceded(tag("="), date)
auxillary_date(i) == AndThen(Tag(<<"=">>, i), LAMBDA eq : date(eq.rest))

\* code: delimited(tag("("), take_until(")"), tag(")"))
code(i) ==
    AndThen(Tag(<<"(">>, i), LAMBDA open :
    AndThen(TakeUntil(<<")">>, open.rest), LAMBDA body :
    AndThen(Tag(<<")">>, body.rest), LAMBDA close :
    Ok(close.rest, body.out))))

\* description: opt(take_until(" | ")), then the memo up to the line ending
Delimiter == <<" ", "|", " ">>

description(i) ==
    AndThen(Opt(TakeUntil(Delimiter, i), i), LAMBDA m :
    AndThen(IF m.out.some
            THEN AndThen(Tag(Delimiter, m.rest), LAMBDA d : NotLineEnding(d.rest))
            ELSE NotLineEnding(m.rest), LAMBDA memo_ :
    Ok(memo_.rest, [merchant |-> m.out, memo |-> memo_.out])))

(***************************************************************************)
(* The texts the rules are called on.                                      *)
(***************************************************************************)
MaxMonth == 13
MaxDay == 32
MaxSpaces == 3
MaxPostings == 2

Concat(a, b) == a \o b
RECURSIVE Flatten(_)
Flatten(ss) == IF ss = <<>> THEN <<>> ELSE ss[1] \o Flatten(Drop(ss, 1))
RECURSIVE Repeat(_, _)
Repeat(t, n) == IF n = 0 THEN <<>> ELSE t \o Repeat(t, n - 1)

Years == {1900, 2000, 2023, 2024, ChronoMaxYear}
Months == 0..MaxMonth
Days == {0, 1} \cup (27..MaxDay)
Separators == {<<"-">>, <<"/">>}
Number(n, pad) == IF pad THEN Pad2(n) ELSE ToStr(n)
DateText(y, s1, m, s2, d, pad) == ToStr(y) \o s1 \o Number(m, pad) \o s2 \o Number(d, pad)
DateAfter == {<<>>, <<" ">>}

WellFormedDates ==
    {DateText(y, s1, m, s2, d, pad) \o a :
        y \in Years, s1 \in Separators, m \in Months, s2 \in Separators,
        d \in Days, pad \in BOOLEAN, a \in DateAfter}
MalformedDates ==
    {<<>>,
    <<"2", "0", "2", "4">>,
    <<"2", "0", "2", "4", "-">>,
    <<"2", "0", "2", "4", "-", "1">>,
    <<"2", "0", "2", "4", "-", "1", "-">>,
    <<"x">>,
    <<"2", "0", "2", "4", ".", "1", ".", "1">>,
    <<"-", "1", "-", "1">>,
    <<"2", "0", "2", "4", "-", "9", "9", "9", "9", "9", "9", "9", "9", "9", "9", "9", "-", "1">>,
    <<"2", "0", "2", "4", "-", "1", "-", "4", "2", "9", "4", "9", "6", "7", "2", "9", "6">>,
    <<"2", "1", "4", "7", "4", "8", "3", "6", "4", "8", "-", "1", "-", "1">>,
    <<"2", "6", "2", "1", "4", "3", "-", "1", "-", "1">>,
    <<"2", "0", "2", "4", "-", "4", "2", "9", "4", "9", "6", "7", "2", "9", "5", "-", "1">>,
    <<"2", "0", "2", "4", "-", "0", "1", "-", "0", "1", "1">>,
    <<"2", "0", "2", "4", "-", "1", "-", "1", "/">>}
DateInputs == WellFormedDates \cup MalformedDates

AuxDateInputs ==
    {<<"=", "2", "0", "2", "4", "/", "0", "3", "/", "0", "3">>,
    <<"=", "2", "0", "2", "4", "-", "1", "3", "-", "4", "0">>,
    <<"=", "2", "0", "2", "3", "-", "0", "2", "-", "2", "9", " ", "*">>,
    <<"2", "0", "2", "4", "/", "0", "3", "/", "0", "3">>,
    <<"=">>,
    <<"=", "x">>,
    <<>>}

StateInputs ==
    {<<>>,
    <<"*">>,
    <<"!">>,
    <<" ", "*">>,
    <<"*", "x">>,
    <<"x">>,
    <<"!", "!">>}

CodeInputs ==
    {<<"(", "#", "1", "0", "0", ")">>,
    <<"(", "#", "1">>,
    <<"(", ")">>,
    <<"x">>,
    <<"(", "a", ")", "(", "b", ")">>,
    <<"(", "a", " ", "b", ")", " ", "c">>,
    <<>>,
    <<"(">>}

IntParts == {<<>>,
            <<"5">>,
            <<"2", "0">>,
            <<"1", "0", "0", "0">>,
            <<"1", "_", "0", "0", "0">>}
FracParts == {<<>>,
             <<".">>,
             <<".", "0">>,
             <<".", "0", "0">>,
             <<".", "5", "0">>,
             <<".", "5", "_", "0">>}
ExpParts == {<<>>,
            <<"e", "2">>,
            <<"E", "+", "2">>}
NumericTexts == {n \o f \o e : n \in IntParts, f \in FracParts, e \in ExpParts}
NumericAfter == {<<>>, <<"\n">>, <<"x">>}

FloatInputs == {n \o a : n \in NumericTexts, a \in NumericAfter}
DecimalInputs == {n \o a : n \in IntParts \cup {<<"_", "1">>, <<"1", "_", "_">>}, a \in NumericAfter}

Space2Inputs ==
    {Repeat(<<" ">>, n) \o a : n \in 0..MaxSpaces, a \in {<<>>, <<"x">>, <<"\t">>, <<"\t", "x">>}}
    \cup {<<"\t", " ">>, <<"x", " ", " ">>}

Currencies == {<<"U", "S", "D">>,
              <<"E", "U", "R">>,
              <<"e">>}
Gaps == {<<>>,
        <<" ">>,
        <<"\t">>,
        <<" ", " ">>}
AmountAfter == {<<>>, <<"\n">>}
AmountText(c, g, n, currencyFirst) == IF currencyFirst THEN c \o g \o n ELSE n \o g \o c
AmountInputs ==
    {AmountText(c, g, n, o) \o a :
        c \in Currencies, g \in Gaps, n \in NumericTexts, o \in BOOLEAN, a \in AmountAfter}
    \cup {<<"U", "S", "D">>,
          <<"2", "0">>,
          <<"U", "S", "D", " ", "x">>,
          <<"$", "2", "0">>,
          <<"U", "S", "D", " ", "-", "5">>,
          <<"2", "0", " ", "$">>}

Accounts == {<<"A", ":", "B">>,
            <<"A", ":", "B", " ", "C">>,
            <<"\t", "A", ":", "B">>,
            <<>>}
PostingSeparators == {Repeat(<<" ">>, n) : n \in 0..MaxSpaces} \cup {<<" ", "\t">>}
PostingAmounts == {<<>>,
                  <<"U", "S", "D", " ", "5">>,
                  <<"5", "U", "S", "D">>,
                  <<"U", "S", "D", "1", ".", "5", "0">>,
                  <<"U", "S", "D", " ", "1", "e", "2">>,
                  <<"x">>,
                  <<"5">>,
                  <<"U", "S", "D">>}
PostingAfter == {<<>>,
                <<"\n", "\t", "C", " ", " ", "E", "U", "R", " ", "1">>}
PostingText(acc, sep, amt) == acc \o sep \o amt
PostingInputs ==
    {PostingText(acc, sep, amt) \o a :
        acc \in Accounts, sep \in PostingSeparators, amt \in PostingAmounts, a \in PostingAfter}

Merchants == {None, Some(<<>>), Some(<<"M", "e">>)}
Memos == {<<>>,
         <<"M", "e", "m", "o">>,
         <<"a", "|", "b">>,
         <<"a", " ", "|", "b">>}
DescriptionAfter == {<<>>,
                    <<"\n">>,
                    <<"\r", "\n", "\t", "A", " ", " ", "U", "S", "D", " ", "5">>,
                    <<"\n", "\t", "A", " ", "|", " ", "B", " ", " ", "U", "S", "D", " ", "5">>,
                    <<"\r", "X">>}
DescriptionText(mer, mem) == IF mer.some THEN mer.v \o Delimiter \o mem ELSE mem
DescriptionInputs ==
    {DescriptionText(mer, mem) \o a : mer \in Merchants, mem \in Memos, a \in DescriptionAfter}

\* the transaction of test::parse_transaction
Fixture ==
    <<"2", "0", "2", "4", "-", "3", "-", "2", "=", "2", "0", "2", "4", "/", "0", "3", "/", "0", "3", " ", "*", " ", "(", "#", "1", "0", "0", ")", " ", "M", "e", "r", "c", "h", "a", "n", "t", " ", "|", " ", "M", "e", "m", "o", "\n", "\t", "E", "x", "p", "e", "n", "s", "e", "s", ":", "F", "o", "o", "d", " ", " ", "U", "S", "D", "2", "0", ".", "0", "0">>

TxDate1 == <<"2", "0", "2", "4", "-", "3", "-", "2">>
TxAuxDates == {None, Some(<<"2", "0", "2", "4", "/", "0", "3", "/", "0", "3">>)}
TxGaps == {<<>>, <<" ">>}
TxMarkers == {<<>>,
             <<"*">>,
             <<"!">>}
TxCodes == {None, Some(<<"#", "1", "0", "0">>)}
TxDescriptions == {<<None, <<"M", "e", "m", "o">>>>, <<Some(<<"M", "e">>), <<"M", "e", "m", "o">>>>}
TxIndents == {<<"\t">>}
TxLines ==
    {<<"\t", "A", ":", "B", " ", " ", "U", "S", "D", "2", "0", ".", "0", "0">>,
    <<"\t", "C", " ", " ">>,
    <<"\t", "D">>,
    <<"\t", "A", " ", "|", " ", "B", " ", " ", "5", " ", "U", "S", "D">>}
TxLineSeqs == UNION {[1..n -> TxLines] : n \in 0..MaxPostings}
LineBreak == <<"\n">>
Lines(ls) == Flatten([k \in 1..Len(ls) |-> LineBreak \o ls[k]])

HeaderText(d, aux, gap, mark, cd, desc) ==
    d \o (IF aux.some THEN <<"=">> \o aux.v ELSE <<>>) \o gap \o mark \o gap
      \o (IF cd.some THEN <<"(">> \o cd.v \o <<")">> ELSE <<>>) \o gap
      \o DescriptionText(desc[1], desc[2])

ShapedTransactions ==
    {HeaderText(TxDate1, aux, gap, mark, cd, desc) \o Lines(ls) :
        aux \in TxAuxDates, gap \in TxGaps, mark \in TxMarkers, cd \in TxCodes,
        desc \in TxDescriptions, ls \in TxLineSeqs}
OtherTransactions ==
    {<<"2", "0", "2", "4", "-", "1", "3", "-", "4", "0", " ", "*", " ", "M", "e", "m", "o", "\n", "\t", "A", ":", "B", " ", " ", "U", "S", "D", " ", "5">>,
    <<"2", "0", "2", "4", "-", "3", "-", "2", "=", "2", "0", "2", "3", "-", "0", "2", "-", "2", "9", " ", "*", " ", "M", "e", "m", "o">>,
    <<"2", "0", "2", "4", "-", "3", "-", "2", " ", "M", "e", "m", "o", "\r", "X">>,
    <<"2", "0", "2", "4", "-", "3", "-", "2", " ", "(", "#", "1", " ", "M", "e", "m", "o", "\n", "\t", "A", ":", "B", " ", " ", "U", "S", "D", " ", "5">>,
    <<"2", "0", "2", "4", "-", "3", "-", "2", " ", "M", "e", "m", "o", "\n", "\t", "A", ":", "B", " ", " ", "U", "S", "D", " ", "1", "e", "2">>,
    <<"M", "e", "m", "o">>,
    <<"2", "0", "2", "4", "-", "3", "-", "2", " ", "M", "e", "m", "o", "\n", "f", "o", "o", "\n", "A", ":", "B", " ", " ", "U", "S", "D", " ", "5">>,
    <<"2", "0", "2", "4", "-", "3", "-", "2", " ", "*", " ", "M", "e", "m", "o", "\r", "\n", "\t", "A", ":", "B", " ", " ", "5", " ", "U", "S", "D", "\r", "\n", "\t", "C", " ", " ">>,
    <<"2", "0", "2", "4", "-", "3", "-", "2", " ", "M", "e", "m", "o", "\n", "\t", "A", ":", "B", " ", " ", "U", "S", "D", " ", "5", " ", ";", " ", "n", "o", "t", "e", "\n", "\t", "C", " ", " ">>,
    <<"2", "0", "2", "4", "-", "3", "-", "2">>,
    <<"2", "0", "2", "4", "-", "3", "-", "2", "=", "x", " ", "M">>,
    <<>>}
TransactionInputs == ShapedTransactions \cup OtherTransactions \cup {Fixture}

Rules == {"float", "decimal", "space2", "date", "auxillary_date", "transaction_state",
          "code", "description", "amount", "posting", "transaction"}

Inputs(r) ==
    CASE r = "float" -> FloatInputs
      [] r = "decimal" -> DecimalInputs
      [] r = "space2" -> Space2Inputs
      [] r = "date" -> DateInputs
      [] r = "auxillary_date" -> AuxDateInputs
      [] r = "transaction_state" -> StateInputs
      [] r = "code" -> CodeInputs
      [] r = "description" -> DescriptionInputs
      [] r = "amount" -> AmountInputs
      [] r = "posting" -> PostingInputs
      [] r = "transaction" -> TransactionInputs

(***************************************************************************)
(* The state machine: a caller invokes one rule on one text.               *)
(***************************************************************************)
NoDate == [year |-> 0, month |-> 0, day |-> 0]

locals == <<date_, auxillary_date_, state, code_, merchant, memo, postings>>

Init ==
    /\ rule \in Rules
    /\ input \in Inputs(rule)
    /\ pc = "Start"
    /\ rest = input
    /\ outcome = "Running"
    /\ value = None
    /\ date_ = NoDate
    /\ auxillary_date_ = None
    /\ state = "Unbound"
    /\ code_ = None
    /\ merchant = None
    /\ memo = <<>>
    /\ postings = <<>>

\* A rule returns r to the caller: on success the caller rebinds its input
\* to the remainder and holds the value; on an error or a panic its input
\* binding is what it was and it holds no value.
Return(r) ==
    /\ pc' = "Done"
    /\ outcome' = r.kind
    /\ rest' = IF r.kind = "Ok" THEN r.rest ELSE input
    /\ value' = IF r.kind = "Ok" THEN Some(r.out) ELSE None
    /\ UNCHANGED <<rule, input>>

CallFloat ==
    rule = "float" /\ pc = "Start" /\ UNCHANGED locals
    /\ \E r \in {float(rest)} : Return(r)
CallDecimal ==
    rule = "decimal" /\ pc = "Start" /\ UNCHANGED locals
    /\ \E r \in {decimal(rest)} : Return(r)
CallSpace2 ==
    rule = "space2" /\ pc = "Start" /\ UNCHANGED locals
    /\ \E r \in {space2(rest)} : Return(r)
CallDate ==
    rule = "date" /\ pc = "Start" /\ UNCHANGED locals
    /\ \E r \in {date(rest)} : Return(r)
CallAuxillaryDate ==
    rule = "auxillary_date" /\ pc = "Start" /\ UNCHANGED locals
    /\ \E r \in {auxillary_date(rest)} : Return(r)
CallTransactionState ==
    rule = "transaction_state" /\ pc = "Start" /\ UNCHANGED locals
    /\ \E r \in {transaction_state(rest)} : Return(r)
CallCode ==
    rule = "code" /\ pc = "Start" /\ UNCHANGED locals
    /\ \E r \in {code(rest)} : Return(r)
CallDescription ==
    rule = "description" /\ pc = "Start" /\ UNCHANGED locals
    /\ \E r \in {description(rest)} : Return(r)
CallAmount ==
    rule = "amount" /\ pc = "Start" /\ UNCHANGED locals
    /\ \E r \in {amount(rest)} : Return(r)
CallPosting ==
    rule = "posting" /\ pc = "Start" /\ UNCHANGED locals
    /\ \E r \in {posting(rest)} : Return(r)

\* One statement of transaction(), `let (input, x) = r?;`: on success the
\* remainder is rebound and control moves to `next`; otherwise transaction
\* returns the error (or the panic unwinds) and the names keep their values.
Step(next, r) ==
    IF r.kind = "Ok"
    THEN /\ pc' = next
         /\ rest' = r.rest
         /\ UNCHANGED <<rule, input, outcome, value>>
    ELSE /\ Return(r)
         /\ UNCHANGED locals

\* line 114
TxDate ==
    /\ rule = "transaction" /\ pc = "Start"
    /\ \E r \in {date(rest)} :
        /\ Step("DateParsed", r)
        /\ r.kind = "Ok" =>
            /\ date_' = r.out
            /\ UNCHANGED <<auxillary_date_, state, code_, merchant, memo, postings>>

\* line 115, `alt(char(' '), opt(auxillary_date))`: alt takes one tuple of
\* alternatives and these two have different output types, so the line has
\* no single reading; either parser named on it may be the one applied.
TxAuxDate ==
    /\ rule = "transaction" /\ pc = "DateParsed"
    /\ \E r \in {Opt(auxillary_date(rest), rest)} :
        /\ Step("AuxDateParsed", r)
        /\ r.kind = "Ok" =>
            /\ auxillary_date_' = r.out
            /\ UNCHANGED <<date_, state, code_, merchant, memo, postings>>

TxAuxSpace ==
    /\ rule = "transaction" /\ pc = "DateParsed"
    /\ \E r \in {Tag(<<" ">>, rest)} :
        /\ r.kind = "Ok"
        /\ Step("AuxDateParsed", r)
        /\ auxillary_date_' = None
        /\ UNCHANGED <<date_, state, code_, merchant, memo, postings>>

\* line 116
TxState ==
    /\ rule = "transaction" /\ pc = "AuxDateParsed"
    /\ \E r \in {transaction_state(rest)} :
        /\ Step("StateParsed", r)
        /\ state' = r.out
        /\ UNCHANGED <<date_, auxillary_date_, code_, merchant, memo, postings>>

\* line 117
TxCode ==
    /\ rule = "transaction" /\ pc = "StateParsed"
    /\ \E r \in {Opt(code(rest), rest)} :
        /\ Step("CodeParsed", r)
        /\ code_' = r.out
        /\ UNCHANGED <<date_, auxillary_date_, state, merchant, memo, postings>>

\* line 118
TxDescription ==
    /\ rule = "transaction" /\ pc = "CodeParsed"
    /\ \E r \in {description(rest)} :
        /\ Step("DescriptionParsed", r)
        /\ r.kind = "Ok" =>
            /\ merchant' = r.out.merchant
            /\ memo' = r.out.memo
            /\ UNCHANGED <<date_, auxillary_date_, state, code_, postings>>

\* One round of separated_list0 with the element result p: an element is
\* pushed and the list goes on, an error ends the list at the current
\* position, a panic unwinds.
ListStep(p) ==
    /\ Step(IF p.kind = "Ok" THEN "PostingsAccumulating" ELSE "PostingsParsed",
            IF p.kind = "Err" THEN Ok(rest, <<>>) ELSE p)
    /\ p.kind # "Panic" =>
        /\ postings' = IF p.kind = "Ok" THEN Append(postings, p.out) ELSE postings
        /\ UNCHANGED <<date_, auxillary_date_, state, code_, merchant, memo>>

\* line 119, separated_list0(line_ending, posting): the first element is
\* parsed at the current position, without a separator before it
TxFirstPosting ==
    /\ rule = "transaction" /\ pc = "DescriptionParsed"
    /\ \E p \in {posting(rest)} : ListStep(p)

\* separated_list0's loop: a separator and then an element; when either
\* fails the list ends at the position before the separator (line_ending
\* always consumes, so the list's no-progress error cannot occur)
TxNextPosting ==
    /\ rule = "transaction" /\ pc = "PostingsAccumulating"
    /\ \E p \in {AndThen(LineEnding(rest), LAMBDA sep : posting(sep.rest))} : ListStep(p)

\* lines 120-131: the Transaction is built from the bound names
TxReturn ==
    /\ rule = "transaction"
    /\ pc = "PostingsParsed"
    /\ Return(Ok(rest, [date |-> date_, auxillary_date |-> auxillary_date_,
                        state |-> state, code |-> code_, merchant |-> merchant,
                        memo |-> memo, postings |-> postings]))
    /\ UNCHANGED locals

Next ==
    \/ CallFloat
    \/ CallDecimal
    \/ CallSpace2
    \/ CallDate
    \/ CallAuxillaryDate
    \/ CallTransactionState
    \/ CallCode
    \/ CallDescription
    \/ CallAmount
    \/ CallPosting
    \/ TxDate
    \/ TxAuxDate
    \/ TxAuxSpace
    \/ TxState
    \/ TxCode
    \/ TxDescription
    \/ TxFirstPosting
    \/ TxNextPosting
    \/ TxReturn

Spec == Init /\ [][Next]_vars

(***************************************************************************)
(* What the claims speak of, stated independently of the rules.            *)
(***************************************************************************)
\* (y, m, d) is a day of the Gregorian calendar
MonthLengths(y) ==
    <<31, IF y % 400 = 0 \/ (y % 4 = 0 /\ y % 100 # 0) THEN 29 ELSE 28,
      31, 30, 31, 30, 31, 31, 30, 31, 30, 31>>
IsCalendarDate(y, m, d) == m \in 1..12 /\ d \in 1..MonthLengths(y)[m]

\* digit-run, '-' or '/', digit-run, '-' or '/', digit-run at the start of t
RECURSIVE DigitRuns(_, _)
DigitRuns(t, k) ==
    Let(SpanLen(Digit, t), LAMBDA n :
        IF n = 0 THEN FALSE
        ELSE IF k = 1 THEN TRUE
        ELSE n < Len(t) /\ t[n + 1] \in {"-", "/"} /\ DigitRuns(Drop(t, n + 1), k - 1))
MatchesDateGrammar(t) == DigitRuns(t, 3)

\* the date text of the input of a rule that starts with a date
DateTextOfInput ==
    IF rule = "auxillary_date" /\ IsPrefix(<<"=">>, input) THEN Drop(input, 1) ELSE input

InvalidDateGiven ==
    /\ rule \in {"date", "auxillary_date", "transaction"}
    /\ rule = "auxillary_date" => IsPrefix(<<"=">>, input)
    /\ MatchesDateGrammar(DateTextOfInput)
    /\ Let(DateParts(DateTextOfInput), LAMBDA t :
           t.kind = "Ok" => ~IsCalendarDate(t.out[1], t.out[2], t.out[3]))

\* C1: a text that matches the date grammar but names no calendar date makes
\* date (also when reached through auxillary_date or transaction) return an
\* error to its caller; the process is never aborted.
C1_InvalidDateIsError ==
    (pc = "Done" /\ InvalidDateGiven) => outcome = "Err"

\* C9: for every calendar date (y, m, d), of a year up to the largest one a
\* NaiveDate holds, written with either separator in either place, with or
\* without leading zeros, date succeeds with CalendarDate(y, m, d) and
\* consumes exactly the date text.
C9_DateAcceptance ==
    (rule = "date" /\ pc = "Done") =>
        \A y \in Years, s1 \in Separators :
            IsPrefix(ToStr(y) \o s1, input) =>
                \A m \in Months, s2 \in Separators, pad \in BOOLEAN :
                    IsPrefix(ToStr(y) \o s1 \o Number(m, pad) \o s2, input) =>
                        \A d \in Days, a \in DateAfter :
                            (input = DateText(y, s1, m, s2, d, pad) \o a
                             /\ IsCalendarDate(y, m, d)) =>
                                /\ outcome = "Ok"
                                /\ value = Some([year |-> y, month |-> m, day |-> d])
                                /\ rest = a

\* the mixed form 2024-01/01 has been parsed as the first of January 2024
C9_Witness ==
    /\ rule = "date" /\ pc = "Done" /\ outcome = "Ok"
    /\ input = <<"2", "0", "2", "4", "-", "0", "1", "/", "0", "1", " ">>
    /\ value = Some([year |-> 2024, month |-> 1, day |-> 1])
    /\ rest = <<" ">>

\* the numeric texts of the grammar: a plain digit-run, or a float literal
\* (the whole text is one literal of the lexer)
IsPlainDigits(n) == n # <<>> /\ \A k \in 1..Len(n) : n[k] \in Digit
IsFloatLiteral(n) == Let(float(n), LAMBDA r : r.kind = "Ok" /\ r.rest = <<>>)
HasExponent(n) == \E k \in 1..Len(n) : n[k] \in {"e", "E"}
HasSeparator(n) == \E k \in 1..Len(n) : n[k] = "_"
IsDigitChar(ch) == ch \in Digit
IsNotSeparator(ch) == ch # "_"
StripSeparators(n) == SelectSeq(n, IsNotSeparator)

\* the exact decimal a fixed-point text denotes: its digits alone, scaled
\* by the number of digits after the point
DigitsValue(n) ==
    Let(Occurrences(<<".">>, n), LAMBDA dots :
        [m |-> ToNat(SelectSeq(n, IsDigitChar)),
         scale |-> IF dots = {} THEN 0
                   ELSE Len(SelectSeq(Drop(n, Min(dots)), IsDigitChar))])

FixedPointTexts ==
    {n \in NumericTexts : (IsPlainDigits(n) \/ IsFloatLiteral(n)) /\ ~HasExponent(n)}
SeparatedFloatTexts == {n \in NumericTexts : IsFloatLiteral(n) /\ HasSeparator(n)}

\* P(c, g, n, currencyFirst, a) for every way the input is a currency c and
\* a numeric text n of Dom in either order, g between them and a after them
ForAmountInput(Dom, P(_, _, _, _, _)) ==
    /\ \A c \in Currencies, g \in Gaps :
        IsPrefix(c \o g, input) =>
            \A n \in Dom, a \in AmountAfter :
                input = AmountText(c, g, n, TRUE) \o a => P(c, g, n, TRUE, a)
    /\ \A n \in Dom :
        IsPrefix(n, input) =>
            \A c \in Currencies, g \in Gaps, a \in AmountAfter :
                input = AmountText(c, g, n, FALSE) \o a => P(c, g, n, FALSE, a)

\* the caller holds the amount of currency c and value d, and the text a is left
HoldsAmount(c, d, a) ==
    /\ outcome = "Ok"
    /\ value.some
    /\ value.v.currency = c
    /\ DecimalEq(value.v.amount, d)
    /\ rest = a

\* the caller's result is the result r of another call
SameResultAs(r) ==
    /\ outcome = r.kind
    /\ r.kind = "Ok" => HoldsAmount(r.out.currency, r.out.amount, r.rest)

\* C3: amount accepts the currency and the number in either order, the
\* number as a float literal or as plain digits, with or without blanks
\* between them; the result is the currency token with the number's exact
\* value, whichever the order and whichever way the number is written, and
\* writing the two tokens in the other order gives the same result.
C3_AmountOrderings ==
    (rule = "amount" /\ pc = "Done") =>
        /\ ForAmountInput(FixedPointTexts,
               LAMBDA c, g, n, o, a : HoldsAmount(c, DigitsValue(n), a))
        /\ ForAmountInput({n \in NumericTexts : IsPlainDigits(n) \/ IsFloatLiteral(n)},
               LAMBDA c, g, n, o, a : SameResultAs(amount(AmountText(c, g, n, ~o) \o a)))

\* 20USD (plain digits, then the currency, no blank) is USD 20.00
C3_Witness ==
    /\ rule = "amount" /\ pc = "Done" /\ outcome = "Ok"
    /\ input = <<"2", "0", "U", "S", "D">>
    /\ value.v.currency = <<"U", "S", "D">>
    /\ DecimalEq(value.v.amount, [m |-> 2000, scale |-> 2])

\* C4: when an ordering of amount matches but the numeric text is rejected
\* by the decimal conversion, amount returns an error to its caller, and
\* neither amount nor posting ever aborts.
C4_ConversionFailureIsError ==
    /\ (rule = "amount" /\ pc = "Done") =>
           Let(AmountTokens(input), LAMBDA t :
               (t.kind = "Ok" /\ DecimalFromStr(t.out[2]).kind = "Err") => outcome = "Err")
    /\ (rule = "posting" /\ pc = "Done") => outcome # "Panic"

\* C10: when amount matches a float literal written with grouping
\* separators, the result is the result for the same text written without
\* them, and for a literal in fixed-point form the parse succeeds with the
\* value of the digits alone.
C10_SeparatorsIgnored ==
    (rule = "amount" /\ pc = "Done") =>
        ForAmountInput(SeparatedFloatTexts,
            LAMBDA c, g, n, o, a :
                /\ SameResultAs(amount(AmountText(c, g, StripSeparators(n), o) \o a))
                /\ ~HasExponent(n) => HoldsAmount(c, DigitsValue(n), a))

\* USD 1_000.50 has been parsed as USD 1000.50
C10_Witness ==
    /\ rule = "amount" /\ pc = "Done" /\ outcome = "Ok"
    /\ input = <<"U", "S", "D", " ", "1", "_", "0", "0", "0", ".", "5", "0">>
    /\ value.v.amount = [m |-> 100050, scale |-> 2]

\* the transaction value the caller holds has these fields
HoldsTransaction(d, aux, st, cd, mer, mem, account, cur, amt) ==
    /\ outcome = "Ok"
    /\ value.some
    /\ value.v.date = d
    /\ value.v.auxillary_date = aux
    /\ value.v.state = st
    /\ value.v.code = cd
    /\ value.v.merchant = mer
    /\ value.v.memo = mem
    /\ Len(value.v.postings) = 1
    /\ value.v.postings[1].account = [name |-> account]
    /\ value.v.postings[1].amount.some
    /\ value.v.postings[1].amount.v.currency = cur
    /\ DecimalEq(value.v.postings[1].amount.v.amount, amt)

\* C2: a transaction text `DATE=AUXDATE STATE (CODE) MERCHANT | MEMO`, a
\* line break and an indented posting line `ACCOUNT  AMOUNT` parses to
\* exactly those fields: date, Some(auxiliary date), the marker's state,
\* Some(code), Some(merchant), memo and one posting of ACCOUNT and AMOUNT.
C2_TransactionFields ==
    (rule = "transaction" /\ pc = "Done") =>
        /\ input = Fixture =>
               HoldsTransaction([year |-> 2024, month |-> 3, day |-> 2],
                                Some([year |-> 2024, month |-> 3, day |-> 3]),
                                "Cleared", Some(<<"#", "1", "0", "0">>),
                                Some(<<"M", "e", "r", "c", "h", "a", "n", "t">>), <<"M", "e", "m", "o">>,
                                <<"E", "x", "p", "e", "n", "s", "e", "s", ":", "F", "o", "o", "d">>, <<"U", "S", "D">>,
                                [m |-> 2000, scale |-> 2])
        /\ \A mark \in {<<"*">>, <<"!">>} :
               input = HeaderText(TxDate1, Some(<<"2", "0", "2", "4", "/", "0", "3", "/", "0", "3">>), <<" ">>, mark,
                                  Some(<<"#", "1", "0", "0">>), <<Some(<<"M", "e">>), <<"M", "e", "m", "o">>>>)
                       \o Lines(<<<<"\t", "A", ":", "B", " ", " ", "U", "S", "D", "2", "0", ".", "0", "0">>>>) =>
               HoldsTransaction([year |-> 2024, month |-> 3, day |-> 2],
                                Some([year |-> 2024, month |-> 3, day |-> 3]),
                                IF mark = <<"*">> THEN "Cleared" ELSE "Pending",
                                Some(<<"#", "1", "0", "0">>), Some(<<"M", "e">>), <<"M", "e", "m", "o">>,
                                <<"A", ":", "B">>, <<"U", "S", "D">>, [m |-> 2000, scale |-> 2])

\* C5: posting takes as the account everything before the first run of two
\* or more spaces (single spaces belong to the account), consumes that run,
\* then parses an optional amount; without such a run it fails.  (A call
\* that aborts in the amount is left to C4.)
C5_AccountUpToTwoSpaces ==
    (rule = "posting" /\ pc = "Done") =>
        Let(Occurrences(<<" ", " ">>, input), LAMBDA runs :
            /\ runs = {} => outcome = "Err"
            /\ runs # {} =>
                /\ outcome # "Err"
                /\ outcome = "Ok" =>
                    /\ value.v.account = [name |-> Take(input, Min(runs))]
                    /\ Let(Drop(input, Min(runs)), LAMBDA after :
                           Let(Drop(after, SpanLen({" "}, after)), LAMBDA amt :
                               /\ value.v.amount = Opt(amount(amt), amt).out
                               /\ rest = Opt(amount(amt), amt).rest)))

\* the header line of a text, and the text from its line break on
LineLength(t) == SpanLen({t[k] : k \in 1..Len(t)} \ {"\n"}, t)
HeaderLine(t) ==
    Let(LineLength(t), LAMBDA n :
        IF n > 0 /\ n < Len(t) /\ t[n] = "\r" THEN Take(t, n - 1) ELSE Take(t, n))
FromLineBreak(t) == Drop(t, Len(HeaderLine(t)))
NoLoneReturn(t) == \A k \in 1..Len(t) : t[k] = "\r" => (k < Len(t) /\ t[k + 1] = "\n")

\* C8: description splits the rest of the header line only: merchant is the
\* text before the line's first ` | ` and memo the text after it up to the
\* end of the line; without ` | ` in that line merchant is None and memo the
\* whole line, whatever later lines hold; the remainder starts at the line
\* break.
C8_DescriptionWithinHeaderLine ==
    (rule = "description" /\ pc = "Done" /\ NoLoneReturn(input)) =>
        Let(HeaderLine(input), LAMBDA line :
        Let(Occurrences(Delimiter, line), LAMBDA found :
            /\ outcome = "Ok"
            /\ rest = FromLineBreak(input)
            /\ found # {} =>
                /\ value.v.merchant = Some(Take(line, Min(found)))
                /\ value.v.memo = Drop(line, Min(found) + Len(Delimiter))
            /\ found = {} =>
                /\ value.v.merchant = None
                /\ value.v.memo = line))

\* the line that follows the line break at the head of t, when there is one
NextLine(t) == Let(LineEnding(t), LAMBDA br : IF br.kind = "Ok" THEN Some(HeaderLine(br.rest)) ELSE None)
IsPostingLine(l) == l.some /\ posting(l.v).kind = "Ok"

\* C6: once the header has parsed, transaction only moves forward and ends
\* in Done with success; each following line that is a valid posting is
\* recorded, in input order, and consumed together with its line break, and
\* at the first following line that is not a valid posting (or at the end
\* of the input) the list ends there: the remainder starts at that line's
\* line break, none of the line is consumed and no posting is recorded.
C6_PostingRun ==
    [][(rule = "transaction" /\ pc \in {"DescriptionParsed", "PostingsAccumulating", "PostingsParsed"}) =>
          IF pc = "PostingsParsed"
          THEN pc' = "Done" /\ outcome' = "Ok" /\ rest' = rest /\ value'.v.postings = postings
          ELSE Let(NextLine(rest), LAMBDA line :
                   IF IsPostingLine(line)
                   THEN /\ pc' = "PostingsAccumulating"
                        /\ Len(postings') = Len(postings) + 1
                        /\ SubSeq(postings', 1, Len(postings)) = postings
                        /\ rest' = FromLineBreak(LineEnding(rest).rest)
                   ELSE /\ pc' = "PostingsParsed"
                        /\ postings' = postings
                        /\ rest' = rest)]_vars

\* the position behind the account and the separator of a posting text
AmountStart(t, account) ==
    Let(Drop(t, Len(account)), LAMBDA sep : Drop(sep, 1 + SpanLen(Blank, Drop(sep, 1))))

\* C7: every rule is all-or-nothing: a rule that returns a failure leaves
\* the caller at the position it called from and hands back no value; an
\* optional wrapper around a rule that failed (the auxiliary date, the code,
\* a posting's amount, the next posting of the list) goes on from the
\* position where the rule was started, and the ordering of amount that
\* succeeds is one started at the start of the amount.
C7_AllOrNothing ==
    [][/\ (pc' = "Done" /\ outcome' = "Err") => (rest' = input /\ value' = None)
       /\ (pc = "DateParsed" /\ pc' = "AuxDateParsed" /\ auxillary_date_' = None) =>
              (rest' = rest \/ (rest # <<>> /\ rest[1] = " " /\ rest' = Tail(rest)))
       /\ (pc = "StateParsed" /\ pc' = "CodeParsed" /\ code_' = None) => rest' = rest
       /\ (pc \in {"DescriptionParsed", "PostingsAccumulating"} /\ pc' = "PostingsParsed") =>
              (rest' = rest /\ postings' = postings)
       /\ (rule = "posting" /\ pc' = "Done" /\ outcome' = "Ok" /\ value'.v.amount = None) =>
              rest' = AmountStart(input, value'.v.account.name)
       /\ (rule = "amount" /\ pc' = "Done" /\ outcome' = "Ok") =>
              \E r \in {CurrencyThenFloat(input), CurrencyThenDigits(input),
                        FloatThenCurrency(input), DigitsThenCurrency(input)} :
                  r.kind = "Ok" /\ r.rest = rest' /\ r.out[1] = value'.v.currency]_vars

\* a code that opened and never closed was given up and the description
\* starts at its opening parenthesis
C7_Witness ==
    /\ rule = "transaction" /\ pc = "CodeParsed"
    /\ code_ = None
    /\ rest # <<>> /\ rest[1] = "("

====
